---- MODULE Spec2Model ----
(***************************************************************************)
(* ProTrack: the appointment lifecycle, the subject directory and the      *)
(* change log, as implemented by the App component and its calendar and    *)
(* subject views.                                                          *)
(*                                                                         *)
(* Time is an integer count of slots; a calendar day has SlotsPerDay       *)
(* slots, slot 0 being local midnight.  An ISO instant is a slot number, a *)
(* yyyy-MM-dd string is a day number, an HH:mm string is a slot of the     *)
(* day.                                                                    *)
(*                                                                         *)
(* An operation is an event handler together with the declarative          *)
(* constraints of the form it is the submit handler of.  The buttons of a  *)
(* calendar row exist according to the status of its appointment; the      *)
(* render-time test on the clock that hides the Missed button is repeated  *)
(* by the handler, and it is the handler's test that is modelled.          *)
(*                                                                         *)
(* last is a history variable: the operation that produced the current     *)
(* state, with the inputs that decide its outcome, and the outcome.  ops    *)
(* counts the steps that changed the collections or advanced the clock; a  *)
(* behaviour holds at most MaxOps of them.                                 *)
(*                                                                         *)
(* Spec is the calendar view with the booking form, SpecDirectory the      *)
(* directory view with the bulk entry, SpecApp all of them together.       *)
(* SpecChangeLog is the change-log view over a given log, SpecReports the  *)
(* views that only read, SpecCommunications and SpecDrafts the drafting of *)
(* messages, one request at a time and overlapping, SpecCompleted the      *)
(* calendar and the bulk entry after a session that completed a visit.     *)
(***************************************************************************)
EXTENDS Integers, Sequences, FiniteSets, TLC

VARIABLES now, mounted, currentUser, subjects, appointments, changeLogs,
          editingId, rescheduleApp, completionApp, localStorage, uuid,
          last, ops

vars ==
  <<now, mounted, currentUser, subjects, appointments, changeLogs,
    editingId, rescheduleApp, completionApp, localStorage, uuid, last, ops>>

(***************************************************************************)
(* Bounds                                                                  *)
(***************************************************************************)
SlotsPerDay ==
  2
\* the number of steps that change the data or the clock in one behaviour;
\* ops counts them
MaxOps ==
  3
\* the longest change log that the change-log view is given in SpecChangeLog
\* most requests for a draft in flight at one time
MaxInFlight ==
  2

MaxLogs ==
  3


(***************************************************************************)
(* Values                                                                  *)
(***************************************************************************)
UNDEF ==
  "undefined"
NULL ==
  "null"
\* a nullable object is a sequence: empty for null / undefined / no item
None ==
  <<>>
Some(x) ==
  <<x>>
NoId ==
  0
EMPTY ==
  ""
\* an empty date or time input
NoDay ==
  0 - 1
NoTime ==
  0 - 1

SCHEDULED ==
  "Scheduled"
COMPLETED ==
  "Completed"
MISSED ==
  "Missed"
CANCELLED ==
  "Cancelled"

CorrectionWindowDays ==
  5

\* the session starts late enough for the day before the correction window
\* to be a day of the calendar
StartDay ==
  CorrectionWindowDays + 1
StartNow ==
  StartDay * SlotsPerDay + 1

(***************************************************************************)
(* date-fns and Date, on slots and days                                    *)
(***************************************************************************)
DayOf(t) ==
  t \div SlotsPerDay
TimeOf(t) ==
  t % SlotsPerDay
DateTime(day, time) ==
  day * SlotsPerDay + time
parseISO(day) ==
  DateTime(day, 0)
startOfDay(t) ==
  t - (t % SlotsPerDay)
subDays(t, n) ==
  t - n * SlotsPerDay
isBefore(a, b) ==
  a < b
isAfter(a, b) ==
  a > b

Trim(s) ==
  IF s \in {"", " "} THEN "" ELSE s

(***************************************************************************)
(* Sequence helpers (Array.prototype.map / filter / find)                  *)
(***************************************************************************)
\* Array.prototype.find: an empty sequence for undefined, else <<element>>
FindAppt(apps, id) ==
  LET Is(a) == a.id = id
      hits == SelectSeq(apps, Is)
  IN IF hits = <<>> THEN <<>> ELSE <<Head(hits)>>
FindSubject(subs, id) ==
  LET Is(x) == x.id = id
      hits == SelectSeq(subs, Is)
  IN IF hits = <<>> THEN <<>> ELSE <<Head(hits)>>

(***************************************************************************)
(* Records                                                                 *)
(***************************************************************************)
Note(tag, day, approx) ==
  [tag |-> tag, day |-> day, approx |-> approx]
MissedNote ==
  Note("System: Marked as Missed", 0, FALSE)
AttendedNote(day, approx) ==
  Note("Attended on", day, approx)
RescheduledNote(day) ==
  Note("System: Rescheduled from", day, FALSE)

MOCK_SUBJECTS(t) ==
  << [id |-> "A001", name |-> "Alice Freeman (AIIMS)",
      email |-> "alice@aiims.edu", phone |-> "9876543210", altPhone |-> UNDEF,
      insertionDate |-> t, notes |-> UNDEF],
     [id |-> "S002", name |-> "Bob Smith (SJH)",
      email |-> UNDEF, phone |-> "8765432109", altPhone |-> UNDEF,
      insertionDate |-> t, notes |-> UNDEF],
     [id |-> "M003", name |-> "Charlie Davis (Meerut)",
      email |-> UNDEF, phone |-> "7654321098", altPhone |-> UNDEF,
      insertionDate |-> t, notes |-> UNDEF] >>

DEFAULT_ADMIN ==
  "admin"

Appointment(id, subjectId, date, status, followUpReason, notes) ==
  [id |-> id, subjectId |-> subjectId, date |-> date, status |-> status,
   followUpReason |-> followUpReason, notes |-> notes]

ChangeLogEntry(id, timestamp, sub, type, details, comment) ==
  [id |-> id, timestamp |-> timestamp, subjectId |-> sub.id,
   subjectName |-> sub.name, changeType |-> type, details |-> details,
   comment |-> comment]

(***************************************************************************)
(* App: state updaters                                                     *)
(***************************************************************************)
\* a || b on strings: the empty string and undefined are falsy
OrElse(a, b) ==
  IF a = UNDEF \/ a = EMPTY THEN b ELSE a

\* mutant: the new entry goes in front
addChangeLog_inFront(logs, id, t, type, sub, details, comment) ==
  <<ChangeLogEntry(id, t, sub, type, details, comment)>> \o logs

addChangeLog(logs, id, t, type, sub, details, comment) ==
  Append(logs, ChangeLogEntry(id, t, sub, type, details, comment))

\* mutant: the updated record is added instead of replacing the old one
updateAppointment_added(apps, updated) ==
  Append(apps, updated)

updateAppointment(apps, updated) ==
  [i \in 1..Len(apps) |->
     IF apps[i].id = updated.id THEN updated ELSE apps[i]]

\* mutant: the new appointment takes the place of the store
addAppointment_alone(apps, appt) ==
  <<appt>>

addAppointment(apps, appt) ==
  Append(apps, appt)

\* mutant: the appointments of the subject of the target change with it
updateStatusAppts_ofSubject(apps, id, status, reason) ==
  [i \in 1..Len(apps) |->
     IF apps[i].subjectId = FindAppt(apps, id)[1].subjectId
     THEN [apps[i] EXCEPT !.status = status,
                          !.followUpReason = OrElse(reason, apps[i].followUpReason)]
     ELSE apps[i]]

updateStatusAppts(apps, id, status, reason) ==
  [i \in 1..Len(apps) |->
     IF apps[i].id = id
     THEN [apps[i] EXCEPT !.status = status,
                          !.followUpReason = OrElse(reason, apps[i].followUpReason)]
     ELSE apps[i]]

\* the log entry of updateStatus, or none
updateStatusLogs(logs, apps, subs, id, status, reason, entryId, t) ==
  LET oldApp == FindAppt(apps, id) IN
  IF oldApp # <<>> /\ oldApp[1].status # status
  THEN LET sub == FindSubject(subs, oldApp[1].subjectId) IN
       IF sub # <<>>
       THEN addChangeLog(logs, entryId, t, "UPDATE", sub[1],
                         <<"Status:", oldApp[1].status, "->", status>>,
                         <<"Manual change.", OrElse(reason, EMPTY)>>)
       ELSE logs
  ELSE logs

\* mutant: the first subject of the directory leaves
exitSubjects_first(subs, id) ==
  Tail(subs)

\* handleSubjectChange('DELETE', ...)
exitSubjects(subs, id) ==
  LET Keep(x) == x.id # id IN SelectSeq(subs, Keep)

(***************************************************************************)
(* App: mount effect, the auto-miss pass over the loaded appointments      *)
(***************************************************************************)
\* mutant: the status is not looked at
AutoMiss_anyStatus(app, t) ==
  IF app.date < t
  THEN [app EXCEPT !.status = MISSED,
                   !.followUpReason = "Auto-detected: Past date",
                   !.notes = Append(app.notes, MissedNote)]
  ELSE app

AutoMiss(app, t) ==
  IF app.date < t /\ app.status = SCHEDULED
  THEN [app EXCEPT !.status = MISSED,
                   !.followUpReason = "Auto-detected: Past date",
                   !.notes = Append(app.notes, MissedNote)]
  ELSE app

\* mutant: the pass stops before the last appointment
AutoMissPass_shortOfLast(apps, t) ==
  [i \in 1..Len(apps) |->
     IF i < Len(apps) THEN AutoMiss(apps[i], t) ELSE apps[i]]

AutoMissPass(apps, t) ==
  [i \in 1..Len(apps) |-> AutoMiss(apps[i], t)]

(***************************************************************************)
(* App: save effect (runs after every render in which a collection or the  *)
(* user changed, and writes only while a user is logged in)                *)
(***************************************************************************)
Snapshot(subs, apps, logs, user) ==
  [pt_subjects |-> Some(subs), pt_appointments |-> Some(apps),
   pt_changelogs |-> Some(logs), pt_current_user |-> Some(user)]

\* mutant: the effect stores whoever is logged in, nobody included
SaveEffect_always(store, subs, apps, logs, user) ==
  Snapshot(subs, apps, logs, user)

\* mutant: the effect stores the user alone
SaveEffect_userOnly(store, subs, apps, logs, user) ==
  IF user # NULL THEN [store EXCEPT !.pt_current_user = Some(user)] ELSE store

SaveEffect(store, subs, apps, logs, user) ==
  IF user # NULL THEN Snapshot(subs, apps, logs, user) ELSE store

(***************************************************************************)
(* Initial state: the component states of a fresh mount, an empty          *)
(* localStorage                                                            *)
(***************************************************************************)
NoOp ==
  [op |-> "none", outcome |-> "none"]

Init ==
  /\ now = StartNow
  /\ mounted = FALSE
  /\ currentUser = NULL
  /\ subjects = <<>>
  /\ appointments = <<>>
  /\ changeLogs = <<>>
  /\ editingId = NoId
  /\ rescheduleApp = None
  /\ completionApp = None
  /\ localStorage = [pt_subjects |-> None, pt_appointments |-> None,
                     pt_changelogs |-> None, pt_current_user |-> None]
  /\ uuid = 1
  /\ last = NoOp
  /\ ops = 0

(***************************************************************************)
(* Session                                                                 *)
(***************************************************************************)
\* the first commit runs the mount effect, which reads localStorage, then the
\* save effect with the state of the first render; the next render has the
\* loaded values and runs the save effect again
Bootstrap ==
  /\ ~mounted
  /\ LET ls == localStorage
         firstSave == SaveEffect(ls, subjects, appointments, changeLogs,
                                 currentUser)
         loadedSubs == IF ls.pt_subjects # None THEN ls.pt_subjects[1]
                       ELSE MOCK_SUBJECTS(now)
         loadedApps == IF ls.pt_appointments # None THEN ls.pt_appointments[1]
                       ELSE <<>>
         updatedApps == AutoMissPass(loadedApps, now)
         loadedLogs == IF ls.pt_changelogs # None THEN ls.pt_changelogs[1]
                       ELSE changeLogs
         user == IF ls.pt_current_user # None THEN ls.pt_current_user[1]
                 ELSE currentUser
     IN /\ subjects' = loadedSubs
        /\ appointments' = updatedApps
        /\ changeLogs' = loadedLogs
        /\ currentUser' = user
        /\ localStorage' = SaveEffect(firstSave, loadedSubs, updatedApps,
                                      loadedLogs, user)
        /\ last' = [op |-> "bootstrap", outcome |-> "ok",
                    loaded |-> loadedApps, firstSave |-> firstSave]
  /\ mounted' = TRUE
  /\ UNCHANGED <<now, editingId, rescheduleApp, completionApp, uuid, ops>>

\* page reload: every component state is back to its initial value
Reload ==
  /\ mounted
  /\ mounted' = FALSE
  /\ currentUser' = NULL
  /\ subjects' = <<>>
  /\ appointments' = <<>>
  /\ changeLogs' = <<>>
  /\ editingId' = NoId
  /\ rescheduleApp' = None
  /\ completionApp' = None
  /\ last' = NoOp
  /\ UNCHANGED <<now, localStorage, uuid, ops>>

handleLogin ==
  /\ mounted
  /\ currentUser = NULL
  /\ currentUser' = DEFAULT_ADMIN
  /\ localStorage' = SaveEffect(localStorage, subjects, appointments,
                                changeLogs, DEFAULT_ADMIN)
  /\ last' = NoOp
  /\ UNCHANGED <<now, mounted, subjects, appointments, changeLogs,
                 editingId, rescheduleApp, completionApp, uuid, ops>>

\* the Login screen replaces every view: the state of the calendar is gone;
\* the save effect of the next render writes nothing
handleLogout ==
  /\ mounted
  /\ currentUser # NULL
  /\ currentUser' = NULL
  /\ localStorage' = [localStorage EXCEPT !.pt_current_user = None]
  /\ editingId' = NoId
  /\ rescheduleApp' = None
  /\ completionApp' = None
  /\ last' = [op |-> "logout", outcome |-> "ok"]
  /\ UNCHANGED <<now, mounted, subjects, appointments, changeLogs, uuid, ops>>

\* the clock advances by one slot
Tick ==
  /\ ops < MaxOps
  /\ now' = now + 1
  /\ ops' = ops + 1
  /\ last' = NoOp
  /\ UNCHANGED <<mounted, currentUser, subjects, appointments, changeLogs,
                 editingId, rescheduleApp, completionApp, localStorage, uuid>>

(***************************************************************************)
(* AppointmentCalendar: what is rendered                                   *)
(***************************************************************************)
\* processedData with no search text and both filters on ALL: a row is
\* kept when its subject is found
Listed(app) ==
  FindSubject(subjects, app.subjectId) # None

\* the rows of processedData, before the sort by date
filtered ==
  SelectSeq(appointments, Listed)

ModalOpen ==
  rescheduleApp # None \/ completionApp # None

Ready ==
  mounted /\ currentUser # NULL

Today ==
  DayOf(now)

\* the state after an operation: collections, save effect, history
Commit(subs, apps, logs, op) ==
  /\ <<subs, apps, logs>> # <<subjects, appointments, changeLogs>>
       => ops < MaxOps
  /\ subjects' = subs
  /\ appointments' = apps
  /\ changeLogs' = logs
  /\ localStorage' = SaveEffect(localStorage, subs, apps, logs, currentUser)
  /\ last' = op
  /\ ops' = IF <<subs, apps, logs>> # <<subjects, appointments, changeLogs>>
            THEN ops + 1 ELSE ops

Untouched(op) ==
  Commit(subjects, appointments, changeLogs, op)

(***************************************************************************)
(* AppointmentCalendar: Missed                                             *)
(***************************************************************************)
handleStatusUpdateMissed(id) ==
  /\ Ready /\ ~ModalOpen
  /\ FindAppt(appointments, id) # None
  /\ LET app == FindAppt(appointments, id)[1]
         isFuture == isAfter(app.date, now)
     IN /\ Listed(app)
        /\ app.status = SCHEDULED
        /\ editingId # id
        /\ IF isFuture
           THEN /\ editingId' = editingId
                /\ Untouched([op |-> "markMissed", id |-> id,
                              outcome |-> "FutureMissedNotAllowed"])
           ELSE /\ editingId' = id
                /\ Untouched([op |-> "editReason", id |-> id,
                              outcome |-> "none"])
  /\ UNCHANGED <<now, mounted, currentUser, rescheduleApp, completionApp, uuid>>

saveReason(reasonBuffer) ==
  /\ Ready /\ ~ModalOpen
  /\ editingId # NoId
  /\ FindAppt(appointments, editingId) # None
  /\ Listed(FindAppt(appointments, editingId)[1])
  /\ Commit(subjects,
            updateStatusAppts(appointments, editingId, MISSED, reasonBuffer),
            updateStatusLogs(changeLogs, appointments, subjects, editingId,
                             MISSED, reasonBuffer, uuid, now),
            [op |-> "markMissed", id |-> editingId, reason |-> reasonBuffer,
             outcome |-> "ok"])
  /\ uuid' = IF updateStatusLogs(changeLogs, appointments, subjects, editingId,
                                 MISSED, reasonBuffer, uuid, now) # changeLogs
             THEN uuid + 1 ELSE uuid
  /\ editingId' = NoId
  /\ UNCHANGED <<now, mounted, currentUser, rescheduleApp, completionApp>>

cancelEdit ==
  /\ Ready /\ ~ModalOpen
  /\ editingId # NoId
  /\ editingId' = NoId
  /\ Untouched(NoOp)
  /\ UNCHANGED <<now, mounted, currentUser, rescheduleApp, completionApp, uuid>>

(***************************************************************************)
(* AppointmentCalendar: completion                                         *)
(***************************************************************************)
initCompletionFlow(id) ==
  /\ Ready /\ ~ModalOpen
  /\ FindAppt(appointments, id) # None
  /\ LET app == FindAppt(appointments, id)[1]
     IN /\ Listed(app)
        /\ app.status \in {SCHEDULED, MISSED}
        /\ editingId # id
        /\ completionApp' = Some(app)
  /\ Untouched(NoOp)
  /\ UNCHANGED <<now, mounted, currentUser, editingId, rescheduleApp, uuid>>

cancelCompletion ==
  /\ Ready
  /\ completionApp # None
  /\ completionApp' = None
  /\ Untouched(NoOp)
  /\ UNCHANGED <<now, mounted, currentUser, editingId, rescheduleApp, uuid>>

\* mutant: the attended date has no max
CompletionFormValid_noMax(app, in, t) ==
  /\ in.completionDate # NoDay
  /\ app.status = MISSED =>
       in.completionDate >= DayOf(subDays(t, CorrectionWindowDays))
  /\ in.postVisitAction = "NEXT_APPT" =>
       in.nextApptDate # NoDay /\ in.nextApptDate >= DayOf(t)
  /\ in.postVisitAction = "EXIT" =>
       /\ in.exitReason = "OTHER" => in.exitOtherReason # EMPTY
       /\ in.exitDate # NoDay

\* the constraints of the inputs of the completion form: required, min, max
CompletionFormValid(app, in, t) ==
  /\ in.completionDate # NoDay
  /\ in.completionDate <= DayOf(t)
  /\ app.status = MISSED =>
       in.completionDate >= DayOf(subDays(t, CorrectionWindowDays))
  /\ in.postVisitAction = "NEXT_APPT" =>
       in.nextApptDate # NoDay /\ in.nextApptDate >= DayOf(t)
  /\ in.postVisitAction = "EXIT" =>
       /\ in.exitReason = "OTHER" => in.exitOtherReason # EMPTY
       /\ in.exitDate # NoDay

ExitComment(reason, other, day, approx) ==
  [text |-> "Exit Study:",
   reason |-> IF reason = "OTHER" THEN <<"OTHER:", other>> ELSE <<reason>>,
   on |-> day, approx |-> approx]

\* mutant: the limit itself is refused (isBefore made inclusive)
CorrectionWindowExceeded_inclusive(app, completionDate, t) ==
  LET compDateObj == parseISO(completionDate)
      limitDate == startOfDay(subDays(t, CorrectionWindowDays))
  IN app.status = MISSED /\ compDateObj <= limitDate

\* the correction of a Missed appointment is too old
CorrectionWindowExceeded(app, completionDate, t) ==
  LET compDateObj == parseISO(completionDate)
      limitDate == startOfDay(subDays(t, CorrectionWindowDays))
  IN app.status = MISSED /\ isBefore(compDateObj, limitDate)

\* mutant: the test of the follow-up choice is left out
MissingFollowUpChoice_omitted(in) ==
  FALSE

MissingFollowUpChoice(in) ==
  in.postVisitAction = NULL

MissingReasonText(in) ==
  in.exitReason = "OTHER" /\ Trim(in.exitOtherReason) = EMPTY

\* handleCompletionSubmit past the form: the collections, the modal and the
\* outcome it leaves
CompletionResult(app, in, t, subs, apps, logs, id) ==
  LET originalTime == TimeOf(app.date)
      updated == [app EXCEPT
                    !.status = COMPLETED,
                    !.date = DateTime(in.completionDate, originalTime),
                    !.followUpReason = UNDEF,
                    !.notes = Append(app.notes,
                                     AttendedNote(in.completionDate,
                                                  in.isApproximate))]
      apps1 == updateAppointment(apps, updated)
      sub == FindSubject(subs, app.subjectId)
      R(s, a, l, modal, outcome) ==
        [subjects |-> s, appointments |-> a, changeLogs |-> l,
         completionApp |-> modal, outcome |-> outcome]
  IN
  IF CorrectionWindowExceeded(app, in.completionDate, t)
  THEN R(subs, apps, logs, Some(app), "CorrectionWindowExceeded")
  ELSE IF MissingFollowUpChoice(in)
  THEN R(subs, apps, logs, Some(app), "MissingFollowUpChoice")
  ELSE IF in.postVisitAction = "NEXT_APPT"
  THEN IF in.nextApptDate = NoDay
       THEN R(subs, apps1, logs, Some(app), "MissingNextDate")
       ELSE R(subs,
              addAppointment(apps1,
                Appointment(id, app.subjectId,
                            DateTime(in.nextApptDate, in.nextApptTime),
                            SCHEDULED, UNDEF, <<>>)),
              logs, None, "ok")
  ELSE IF sub # None
  THEN IF MissingReasonText(in)
       THEN R(subs, apps1, logs, Some(app), "MissingReasonText")
       ELSE R(exitSubjects(subs, sub[1].id), apps1,
              addChangeLog(logs, id, t, "DELETE", sub[1],
                           "Exited Subject from study",
                           ExitComment(in.exitReason, in.exitOtherReason,
                                       in.exitDate, in.isApproximate)),
              None, "ok")
  ELSE R(subs, apps1, logs, None, "ok")

handleCompletionSubmit(in) ==
  /\ Ready
  /\ completionApp # None
  /\ LET app == completionApp[1]
         r == CompletionResult(app, in, now, subjects, appointments,
                               changeLogs, uuid)
         op(outcome) == [op |-> "complete", id |-> app.id,
                         was |-> app.status,
                         completionDate |-> in.completionDate,
                         postVisitAction |-> in.postVisitAction,
                         nextApptDate |-> in.nextApptDate,
                         exitReason |-> in.exitReason,
                         exitOtherReason |-> in.exitOtherReason,
                         exitDate |-> in.exitDate,
                         isApproximate |-> in.isApproximate,
                         outcome |-> outcome]
     IN IF ~CompletionFormValid(app, in, now)
        THEN /\ completionApp' = completionApp
             /\ uuid' = uuid
             /\ Untouched(op("blocked"))
        ELSE /\ completionApp' = r.completionApp
             /\ uuid' = IF Len(r.appointments) # Len(appointments)
                           \/ Len(r.changeLogs) # Len(changeLogs)
                        THEN uuid + 1 ELSE uuid
             /\ Commit(r.subjects, r.appointments, r.changeLogs, op(r.outcome))
  /\ UNCHANGED <<now, mounted, currentUser, editingId, rescheduleApp>>

(***************************************************************************)
(* AppointmentCalendar: reschedule                                         *)
(***************************************************************************)
\* mutant: the button is on every row
RescheduleOffered_anyStatus(app) ==
  TRUE

\* the rows that show the reschedule button
RescheduleOffered(app) ==
  app.status \in {SCHEDULED, MISSED}

openRescheduleModal(id) ==
  /\ Ready /\ ~ModalOpen
  /\ FindAppt(appointments, id) # None
  /\ LET app == FindAppt(appointments, id)[1]
     IN /\ Listed(app)
        /\ RescheduleOffered(app)
        /\ editingId # id
        /\ rescheduleApp' = Some(app)
  /\ Untouched(NoOp)
  /\ UNCHANGED <<now, mounted, currentUser, editingId, completionApp, uuid>>

cancelReschedule ==
  /\ Ready
  /\ rescheduleApp # None
  /\ rescheduleApp' = None
  /\ Untouched(NoOp)
  /\ UNCHANGED <<now, mounted, currentUser, editingId, completionApp, uuid>>

\* the constraints of the inputs of the reschedule form: required, min
RescheduleFormValid(day, time, t) ==
  /\ day # NoDay
  /\ day >= DayOf(t)
  /\ time # NoTime

\* mutant: the start of the day itself is refused
isPastReschedule_inclusive(newIso, t) ==
  newIso <= startOfDay(t)

isPastReschedule(newIso, t) ==
  isBefore(newIso, startOfDay(t))

RescheduleResult(app, day, time, t, apps) ==
  LET newIso == DateTime(day, time)
      isPast == isPastReschedule(newIso, t)
      R(a, modal, outcome) ==
        [appointments |-> a, rescheduleApp |-> modal, outcome |-> outcome]
  IN
  IF day = NoDay \/ time = NoTime
  THEN R(apps, Some(app), "none")
  ELSE IF isPast
  THEN R(apps, Some(app), "PastRescheduleDate")
  ELSE R(updateAppointment(apps,
           [app EXCEPT !.date = newIso,
                       !.status = SCHEDULED,
                       !.notes = Append(app.notes,
                                        RescheduledNote(DayOf(app.date)))]),
         None, "ok")

handleRescheduleSubmit(day, time) ==
  /\ Ready
  /\ rescheduleApp # None
  /\ LET app == rescheduleApp[1]
         r == RescheduleResult(app, day, time, now, appointments)
         op(outcome) == [op |-> "reschedule", id |-> app.id, day |-> day,
                         time |-> time, was |-> app.status,
                         outcome |-> outcome]
     IN IF ~RescheduleFormValid(day, time, now)
        THEN /\ rescheduleApp' = rescheduleApp
             /\ Untouched(op("blocked"))
        ELSE /\ rescheduleApp' = r.rescheduleApp
             /\ Commit(subjects, r.appointments, changeLogs, op(r.outcome))
  /\ UNCHANGED <<now, mounted, currentUser, editingId, completionApp, uuid>>

(***************************************************************************)
(* SubjectManager: booking                                                 *)
(***************************************************************************)
\* the booking form is in another view: the calendar is unmounted and its
\* component state is gone
handleBookSubmit(subjectId, bookDate, bookTime) ==
  /\ Ready /\ ~ModalOpen
  /\ FindSubject(subjects, subjectId) # None
  /\ bookDate # NoDay /\ bookTime # NoTime
  /\ Commit(subjects,
            addAppointment(appointments,
              Appointment(uuid, subjectId, DateTime(bookDate, bookTime),
                          SCHEDULED, UNDEF, <<>>)),
            changeLogs,
            [op |-> "book", id |-> uuid, outcome |-> "ok"])
  /\ uuid' = uuid + 1
  /\ editingId' = NoId
  /\ UNCHANGED <<now, mounted, currentUser, rescheduleApp, completionApp>>

(***************************************************************************)
(* ImportExport: bulk entry.  A row of the preview is what handleParse     *)
(* makes of a pasted line: a date column that does not parse is the empty  *)
(* string (NoDay), a date that parses is the instant of its midnight.      *)
(***************************************************************************)
BulkEntryRow(subjectId, name, phone, insertionDate, appointmentDate, remark) ==
  [subjectId |-> subjectId, name |-> name, phone |-> phone,
   insertionDate |-> insertionDate, appointmentDate |-> appointmentDate,
   remark |-> remark]

\* isValid of handleParse
IsValidRow(row) ==
  row.subjectId # EMPTY /\ row.appointmentDate # NoDay

\* a || b on ISO strings
OrElseDate(a, b) ==
  IF a = NoDay THEN b ELSE a

\* a free-text note as the notes of a new appointment
RemarkNotes(remark) ==
  IF remark = EMPTY THEN <<>> ELSE <<Note(remark, 0, FALSE)>>

\* mutant: the staged subject does not get the id of the row
NewBulkSubject_unkeyed(item, t) ==
  [id |-> EMPTY,
   name |-> OrElse(item.name, "Subject " \o item.subjectId),
   email |-> UNDEF, phone |-> item.phone, altPhone |-> UNDEF,
   insertionDate |-> OrElseDate(item.insertionDate, t),
   notes |-> "Auto-created via Bulk Multi-Column Entry"]

\* the subject staged for an id that is neither in the directory nor in the
\* batch so far
NewBulkSubject(item, t) ==
  [id |-> item.subjectId,
   name |-> OrElse(item.name, "Subject " \o item.subjectId),
   email |-> UNDEF, phone |-> item.phone, altPhone |-> UNDEF,
   insertionDate |-> OrElseDate(item.insertionDate, t),
   notes |-> "Auto-created via Bulk Multi-Column Entry"]

\* the merge of a row into the subject of the directory
MergeRow(existing, item) ==
  [existing EXCEPT !.name = OrElse(item.name, existing.name),
                   !.phone = OrElse(item.phone, existing.phone),
                   !.insertionDate = OrElseDate(item.insertionDate,
                                                existing.insertionDate)]

\* mutant: a merge is staged whether or not it changes the subject
StagesUpdate_always(updated, existing) ==
  TRUE

\* JSON.stringify(updated) !== JSON.stringify(existing)
StagesUpdate(updated, existing) ==
  updated # existing

\* mutant: the subjects staged by the batch are not looked at
NewToBatch_directoryOnly(existing, subInNew) ==
  existing = None

\* existingSubIndex === -1 && !subInNew
NewToBatch(existing, subInNew) ==
  existing = None /\ subInNew = None

\* newSubs and updatedSubs after the rows i.. of the batch
RECURSIVE StageSubjects(_, _, _, _, _, _)
StageSubjects(items, i, subs, newSubs, updatedSubs, t) ==
  IF i > Len(items)
  THEN [newSubs |-> newSubs, updatedSubs |-> updatedSubs]
  ELSE LET item == items[i]
           existing == FindSubject(subs, item.subjectId)
           subInNew == FindSubject(newSubs, item.subjectId)
       IN IF NewToBatch(existing, subInNew)
          THEN StageSubjects(items, i + 1, subs,
                             Append(newSubs, NewBulkSubject(item, t)),
                             updatedSubs, t)
          ELSE IF existing # None
               /\ StagesUpdate(MergeRow(existing[1], item), existing[1])
          THEN StageSubjects(items, i + 1, subs, newSubs,
                             Append(updatedSubs,
                                    MergeRow(existing[1], item)), t)
          ELSE StageSubjects(items, i + 1, subs, newSubs, updatedSubs, t)

\* mutant: an appointment dated now counts as past
BulkAppointment_inclusive(item, id, t) ==
  LET isPast == item.appointmentDate <= t
  IN Appointment(id, item.subjectId, item.appointmentDate,
                 IF isPast THEN MISSED ELSE SCHEDULED,
                 IF isPast THEN "Past date on bulk entry" ELSE UNDEF,
                 RemarkNotes(item.remark))

\* the appointment of a row
BulkAppointment(item, id, t) ==
  LET isPast == item.appointmentDate < t
  IN Appointment(id, item.subjectId, item.appointmentDate,
                 IF isPast THEN MISSED ELSE SCHEDULED,
                 IF isPast THEN "Past date on bulk entry" ELSE UNDEF,
                 RemarkNotes(item.remark))

\* mutant: the last row of the batch gets no appointment
NewApps_shortOfLast(items, firstId, t) ==
  [i \in 1..(Len(items) - 1) |-> BulkAppointment(items[i], firstId + i - 1, t)]

NewApps(items, firstId, t) ==
  [i \in 1..Len(items) |-> BulkAppointment(items[i], firstId + i - 1, t)]

\* next[idx] = u for each staged update, in order
RECURSIVE ApplyUpdates(_, _, _)
ApplyUpdates(next, updatedSubs, i) ==
  IF i > Len(updatedSubs)
  THEN next
  ELSE ApplyUpdates([k \in 1..Len(next) |->
                       IF /\ next[k].id = updatedSubs[i].id
                          /\ \A j \in 1..(k - 1) :
                               next[j].id # updatedSubs[i].id
                       THEN updatedSubs[i] ELSE next[k]],
                    updatedSubs, i + 1)

\* mutant: the directory is written and summarised for every batch
SubjectsStaged_always(newSubs, updatedSubs) ==
  TRUE

\* newSubs.length > 0 || updatedSubs.length > 0
SubjectsStaged(newSubs, updatedSubs) ==
  Len(newSubs) > 0 \/ Len(updatedSubs) > 0

BATCH_SUBJECTS ==
  [id |-> "BATCH", name |-> "Bulk Ops"]
BATCH_APPTS ==
  [id |-> "BATCH", name |-> "Bulk Appts"]

\* handleBulkAdd: the collections it leaves and the ids it drew
BulkResult(items, t, subs, apps, logs, firstId) ==
  LET staged == StageSubjects(items, 1, subs, <<>>, <<>>, t)
      newSubs == staged.newSubs
      updatedSubs == staged.updatedSubs
      newApps == NewApps(items, firstId, t)
      logId1 == firstId + Len(items)
      subjectsChanged == SubjectsStaged(newSubs, updatedSubs)
      logs1 == IF subjectsChanged
               THEN addChangeLog(logs, logId1, t, "UPDATE", BATCH_SUBJECTS,
                                 <<"Added", Len(newSubs),
                                   "new subjects and updated",
                                   Len(updatedSubs)>>,
                                 "Bulk Entry Operation")
               ELSE logs
      logId2 == IF subjectsChanged THEN logId1 + 1 ELSE logId1
  IN [subjects |-> IF subjectsChanged
                   THEN ApplyUpdates(subs \o newSubs, updatedSubs, 1)
                   ELSE subs,
      appointments |-> IF Len(newApps) > 0 THEN apps \o newApps ELSE apps,
      changeLogs |-> IF Len(newApps) > 0
                     THEN addChangeLog(logs1, logId2, t, "CREATE", BATCH_APPTS,
                                       <<"Bulk scheduled", Len(newApps),
                                         "appointments">>,
                                       "Bulk Entry Operation")
                     ELSE logs1,
      uuid |-> IF Len(newApps) > 0 THEN logId2 + 1 ELSE logId2,
      newSubs |-> Len(newSubs), updatedSubs |-> Len(updatedSubs)]

\* Commit of the preview: the valid rows go to handleBulkAdd, which ends in
\* the calendar view
handleCommit(previewData) ==
  /\ Ready /\ ~ModalOpen
  /\ Len(previewData) > 0
  /\ LET validRows == SelectSeq(previewData, IsValidRow)
         r == BulkResult(validRows, now, subjects, appointments, changeLogs,
                         uuid)
         op(outcome, n, u) ==
           [op |-> "import", rows |-> previewData, newSubs |-> n,
            updatedSubs |-> u, outcome |-> outcome]
     IN IF Len(validRows) = 0
        THEN /\ uuid' = uuid
             /\ editingId' = editingId
             /\ Untouched(op("NoValidRows", 0, 0))
        ELSE /\ uuid' = r.uuid
             /\ editingId' = NoId
             /\ Commit(r.subjects, r.appointments, r.changeLogs,
                       op("ok", r.newSubs, r.updatedSubs))
  /\ UNCHANGED <<now, mounted, currentUser, rescheduleApp, completionApp>>

(***************************************************************************)
(* SubjectManager: the modal of the directory (create, edit, exit).  The   *)
(* modal is opened from the row of a subject of the directory and nothing  *)
(* else can be done while it is open: selectedSubject is a subject of the  *)
(* directory at the time of the submit.                                    *)
(***************************************************************************)
\* mutant: an id of the directory is taken again
DuplicateSubjectId_never(subs, id) ==
  FALSE

\* subjects.find(s => s.id === subjectData.id)
DuplicateSubjectId(subs, id) ==
  FindSubject(subs, id) # None

\* mutant: the edited record is added to the directory
updateSubjects_added(subs, subjectData) ==
  Append(subs, subjectData)

\* prev.map(s => s.id === subjectData.id ? subjectData : s)
updateSubjects(subs, subjectData) ==
  [i \in 1..Len(subs) |->
     IF subs[i].id = subjectData.id THEN subjectData ELSE subs[i]]

\* handleSubjectChange: the directory and the log it leaves
handleSubjectChange(type, subjectData, comment, subs, logs, id, t) ==
  LET R(s, l, outcome) == [subjects |-> s, changeLogs |-> l,
                           outcome |-> outcome]
  IN
  IF type = "CREATE"
  THEN IF DuplicateSubjectId(subs, subjectData.id)
       THEN R(subs, logs, "DuplicateSubjectId")
       ELSE R(Append(subs, subjectData),
              addChangeLog(logs, id, t, "CREATE", subjectData,
                           "Created new subject entry", comment),
              "ok")
  ELSE IF type = "UPDATE"
  THEN IF FindSubject(subs, subjectData.id) = None
       THEN R(subs, logs, "none")
       ELSE R(updateSubjects(subs, subjectData),
              addChangeLog(logs, id, t, "UPDATE", subjectData,
                           "Updated subject details", comment),
              "ok")
  ELSE R(exitSubjects(subs, subjectData.id),
         addChangeLog(logs, id, t, "DELETE", subjectData,
                      "Exited Subject from study", comment),
         "ok")

\* the state a submit of the modal leaves
SubjectCommit(r, op) ==
  /\ uuid' = IF r.changeLogs # changeLogs THEN uuid + 1 ELSE uuid
  /\ Commit(r.subjects, appointments, r.changeLogs,
            [op EXCEPT !.outcome = r.outcome])
  /\ editingId' = NoId
  /\ UNCHANGED <<now, mounted, currentUser, rescheduleApp, completionApp>>

SubjectRejected(op) ==
  /\ Untouched(op)
  /\ editingId' = NoId
  /\ UNCHANGED <<now, mounted, currentUser, rescheduleApp, completionApp, uuid>>

\* mutant: a comment of blanks is taken
MissingRequiredComment_blanksTaken(comment) ==
  comment = EMPTY

MissingRequiredComment(comment) ==
  Trim(comment) = EMPTY

\* handleSubmit, modalMode CREATE; the id, the name and the comment are
\* required inputs
handleSubmitCreate(formId, formName, comment) ==
  /\ Ready /\ ~ModalOpen
  /\ LET op == [op |-> "createSubject", id |-> formId, comment |-> comment,
                outcome |-> "blocked"]
         subjectData == [id |-> formId, name |-> formName, email |-> UNDEF,
                         phone |-> EMPTY, altPhone |-> EMPTY,
                         insertionDate |-> now, notes |-> "Manually added"]
     IN IF formId = EMPTY \/ formName = EMPTY \/ comment = EMPTY
        THEN SubjectRejected(op)
        ELSE IF MissingRequiredComment(comment)
        THEN SubjectRejected([op EXCEPT !.outcome = "MissingRequiredComment"])
        ELSE SubjectCommit(handleSubjectChange("CREATE", subjectData, comment,
                                               subjects, changeLogs, uuid, now),
                           op)

\* handleSubmit, modalMode EDIT; the id input is disabled
handleSubmitEdit(subjectId, formName, comment) ==
  /\ Ready /\ ~ModalOpen
  /\ FindSubject(subjects, subjectId) # None
  /\ LET selectedSubject == FindSubject(subjects, subjectId)[1]
         op == [op |-> "updateSubject", id |-> subjectId, comment |-> comment,
                outcome |-> "blocked"]
     IN IF formName = EMPTY \/ comment = EMPTY
        THEN SubjectRejected(op)
        ELSE IF MissingRequiredComment(comment)
        THEN SubjectRejected([op EXCEPT !.outcome = "MissingRequiredComment"])
        ELSE SubjectCommit(handleSubjectChange("UPDATE",
                             [selectedSubject EXCEPT !.name = formName],
                             comment, subjects, changeLogs, uuid, now),
                           op)

\* mutant: a reason of blanks is taken
MissingExitReasonText_blanksTaken(exitReason, exitOtherReason) ==
  exitReason = "OTHER" /\ exitOtherReason = EMPTY

MissingExitReasonText(exitReason, exitOtherReason) ==
  exitReason = "OTHER" /\ Trim(exitOtherReason) = EMPTY

\* handleSubmit, modalMode DELETE; the textarea of OTHER and the date are
\* required inputs
handleSubmitDelete(subjectId, exitReason, exitOtherReason, exitDate, approx) ==
  /\ Ready /\ ~ModalOpen
  /\ FindSubject(subjects, subjectId) # None
  /\ LET selectedSubject == FindSubject(subjects, subjectId)[1]
         op == [op |-> "exitSubject", id |-> subjectId,
                exitReason |-> exitReason,
                exitOtherReason |-> exitOtherReason, exitDate |-> exitDate,
                exitApproximate |-> approx, outcome |-> "blocked"]
         exitNote == ExitComment(exitReason, exitOtherReason, exitDate,
                                 approx)
     IN IF (exitReason = "OTHER" /\ exitOtherReason = EMPTY)
           \/ exitDate = NoDay
        THEN SubjectRejected(op)
        ELSE IF MissingExitReasonText(exitReason, exitOtherReason)
        THEN SubjectRejected([op EXCEPT !.outcome = "MissingReasonText"])
        ELSE SubjectCommit(handleSubjectChange("DELETE", selectedSubject,
                                               exitNote, subjects, changeLogs,
                                               uuid, now),
                           op)

(***************************************************************************)
(* ChangeLog: the list of the change-log view                              *)
(***************************************************************************)
\* mutant: the comparator is turned round
compareTimestamps_ascending(a, b) ==
  a.timestamp - b.timestamp

\* the comparator of the sort: negative when a goes before b
compareTimestamps(a, b) ==
  b.timestamp - a.timestamp

\* Array.prototype.sort is stable: an element goes behind the elements
\* that do not go after it
Insert(sorted, x) ==
  LET n == Cardinality({k \in 1..Len(sorted) :
                          compareTimestamps(sorted[k], x) <= 0})
  IN SubSeq(sorted, 1, n) \o <<x>> \o SubSeq(sorted, n + 1, Len(sorted))

\* the first i elements of list, sorted
RECURSIVE sort(_, _)
sort(list, i) ==
  IF i = 0 THEN <<>> ELSE Insert(sort(list, i - 1), list[i])

\* mutant: the list is the array of the prop, which sort orders in place
logsProp_sortedInPlace(logs, filterType) ==
  IF filterType = "ALL" THEN sort(logs, Len(logs)) ELSE logs

\* [...logs]: the list is a copy, the array of the prop is as it was
logsProp(logs, filterType) ==
  logs

filteredLogs(logs, filterType) ==
  LET IsDelete(l) == l.changeType = "DELETE"
      list == IF filterType = "DELETE" THEN SelectSeq(logs, IsDelete) ELSE logs
  IN sort(list, Len(list))

\* a filter button of the view; the list is computed again
setFilterType(filterType) ==
  /\ mounted
  /\ currentUser # NULL
  /\ last' = [op |-> "listChangeLog", filterType |-> filterType,
              filteredLogs |-> filteredLogs(changeLogs, filterType),
              outcome |-> "ok"]
  /\ changeLogs' = logsProp(changeLogs, filterType)
  /\ UNCHANGED <<now, mounted, currentUser, subjects, appointments,
                 editingId, rescheduleApp, completionApp, localStorage,
                 uuid, ops>>

(***************************************************************************)
(* Communications: the draft of a follow-up message.  The drafting service *)
(* is an input: the construction of its client throws or gives a client,   *)
(* the call throws or gives a response whose text may be missing.          *)
(***************************************************************************)
THROWS ==
  "throws"

\* what the promise of generateFollowUpMessage settles to
generateFollowUpMessage(client, response) ==
  IF client = THROWS
  THEN [settled |-> "rejected", value |-> "Error"]
  ELSE IF response = THROWS
  THEN [settled |-> "fulfilled",
        value |-> "Error generating message. Please check your network or API key."]
  ELSE [settled |-> "fulfilled",
        value |-> OrElse(response, "Could not generate message.")]

\* the list Missed Follow-Ups: missed in the last 30 days, subject found
MissedRecently(app) ==
  /\ app.status = MISSED
  /\ now - app.date >= 0
  /\ now - app.date <= 30 * SlotsPerDay
  /\ FindSubject(subjects, app.subjectId) # None

\* Draft Message of a row of Missed Follow-Ups; a rejected promise ends the
\* handler at its await
handleGenerateDraft(id, client, response) ==
  /\ Ready /\ ~ModalOpen
  /\ FindAppt(appointments, id) # None
  /\ MissedRecently(FindAppt(appointments, id)[1])
  /\ LET msg == generateFollowUpMessage(client, response)
     IN Untouched([op |-> "draft", id |-> id, client |-> client,
                   response |-> response, settled |-> msg.settled,
                   generatedMsg |-> IF msg.settled = "fulfilled"
                                    THEN Some([id |-> id, text |-> msg.value])
                                    ELSE None,
                   loadingId |-> IF msg.settled = "fulfilled" THEN NoId
                                 ELSE id,
                   outcome |-> IF msg.settled = "fulfilled" THEN "ok"
                               ELSE "UnhandledRejection"])
  /\ editingId' = NoId
  /\ UNCHANGED <<now, mounted, currentUser, rescheduleApp, completionApp, uuid>>

(***************************************************************************)
(* Communications: drafts that overlap.  handleGenerateDraft runs to its   *)
(* await when the button is clicked and from its await when the promise    *)
(* settles; other clicks and other settlements come in between.  The state *)
(* of the component is kept in last while the view is shown and is gone    *)
(* once another view or a reload replaces it.                              *)
(***************************************************************************)
\* generatedMsg and loadingId of the component, the requests in flight in
\* the order of their clicks, the appointment of the last click, whether a
\* promise was rejected
DraftsView ==
  IF last.op = "drafts" THEN last
  ELSE [op |-> "drafts", generatedMsg |-> None, loadingId |-> NoId,
        inFlight |-> <<>>, requested |-> NoId, rejected |-> FALSE,
        outcome |-> "none"]

\* Draft Message clicked on a row whose button is not disabled:
\* setLoadingId(app.id), then the call of the service
draftRequested(id) ==
  /\ Ready /\ ~ModalOpen
  /\ FindAppt(appointments, id) # None
  /\ MissedRecently(FindAppt(appointments, id)[1])
  /\ DraftsView.loadingId # id
  /\ Len(DraftsView.inFlight) < MaxInFlight
  /\ Untouched([DraftsView EXCEPT !.loadingId = id,
                                  !.inFlight = Append(@, id),
                                  !.requested = id,
                                  !.outcome = "ok"])
  /\ editingId' = NoId
  /\ UNCHANGED <<now, mounted, currentUser, rescheduleApp, completionApp, uuid>>

\* the promise of the k-th request in flight settles: fulfilled,
\* setGeneratedMsg and setLoadingId(null) follow; rejected, the handler ends
draftSettled(k, client, response) ==
  /\ Ready
  /\ last.op = "drafts"
  /\ k \in 1..Len(last.inFlight)
  /\ LET id == last.inFlight[k]
         msg == generateFollowUpMessage(client, response)
         rest == SubSeq(last.inFlight, 1, k - 1)
                   \o SubSeq(last.inFlight, k + 1, Len(last.inFlight))
     IN Untouched(IF msg.settled = "fulfilled"
                  THEN [last EXCEPT
                          !.generatedMsg = Some([id |-> id, text |-> msg.value]),
                          !.loadingId = NoId,
                          !.inFlight = rest,
                          !.outcome = "ok"]
                  ELSE [last EXCEPT
                          !.inFlight = rest,
                          !.rejected = TRUE,
                          !.outcome = "UnhandledRejection"])
  /\ UNCHANGED <<now, mounted, currentUser, editingId, rescheduleApp, completionApp, uuid>>

(***************************************************************************)
(* ImportExport: the exports.  The month range is the one the view sets by *)
(* default, from the first to the last month of the store.                 *)
(***************************************************************************)
\* app.subjectId.trim().charAt(0).toUpperCase()
idPrefix(subjectId) ==
  CASE subjectId = "A001" -> "A"
    [] subjectId = "S002" -> "S"
    [] subjectId = "M003" -> "M"
    [] OTHER -> "N"

\* the rows handleExport hands to the sheet
filteredApps(apps, exportType, exportSite, t) ==
  LET Kept(app) ==
        /\ exportType = "UPCOMING" =>
             app.status = SCHEDULED /\ isAfter(app.date, t)
        /\ exportSite = "AIIMS" => idPrefix(app.subjectId) = "A"
        /\ exportSite = "SJH" => idPrefix(app.subjectId) = "S"
        /\ exportSite = "MEERUT" => idPrefix(app.subjectId) = "M"
  IN SelectSeq(apps, Kept)

\* the sheet Calendar; a missing insertion date prints as N/A (NoDay)
exportToExcel(subs, apps) ==
  [k \in 1..Len(apps) |->
     LET sub == FindSubject(subs, apps[k].subjectId)
     IN [SubjectID |-> apps[k].subjectId,
         Name |-> IF sub # None THEN OrElse(sub[1].name, "Unknown")
                  ELSE "Unknown",
         Mobile |-> IF sub # None THEN OrElse(sub[1].phone, EMPTY) ELSE EMPTY,
         DateOfInsertion |-> IF sub # None /\ sub[1].insertionDate # NoDay
                             THEN DayOf(sub[1].insertionDate) ELSE NoDay,
         Remark |-> apps[k].notes,
         AppointmentDate |-> DayOf(apps[k].date)]]

\* the sheet Exited Subjects
exportExitedSubjects(logs) ==
  LET IsDelete(l) == l.changeType = "DELETE"
      exitedLogs == SelectSeq(logs, IsDelete)
  IN [k \in 1..Len(exitedLogs) |->
        [TimestampOfExit |-> exitedLogs[k].timestamp,
         SubjectID |-> exitedLogs[k].subjectId,
         SubjectName |-> exitedLogs[k].subjectName,
         ExitReason |-> exitedLogs[k].comment,
         SystemNote |-> exitedLogs[k].details]]

handleExport(exportType, exportSite) ==
  /\ Ready /\ ~ModalOpen
  /\ LET rows == filteredApps(appointments, exportType, exportSite, now)
     IN Untouched([op |-> "export", exportType |-> exportType,
                   exportSite |-> exportSite,
                   sheet |-> IF Len(rows) = 0 THEN <<>>
                             ELSE exportToExcel(subjects, rows),
                   outcome |-> IF Len(rows) = 0 THEN "NoRecords" ELSE "ok"])
  /\ editingId' = NoId
  /\ UNCHANGED <<now, mounted, currentUser, rescheduleApp, completionApp, uuid>>

handleExportExited ==
  /\ Ready /\ ~ModalOpen
  /\ LET sheet == exportExitedSubjects(changeLogs)
     IN Untouched([op |-> "exportExited",
                   sheet |-> sheet,
                   outcome |-> IF Len(sheet) = 0 THEN "NoExitedSubjects"
                               ELSE "ok"])
  /\ editingId' = NoId
  /\ UNCHANGED <<now, mounted, currentUser, rescheduleApp, completionApp, uuid>>

(***************************************************************************)
(* Inputs                                                                  *)
(***************************************************************************)
BookSubjects ==
  {"A001", "S002"}
ApptIds ==
  {appointments[i].id : i \in 1..Len(appointments)}
MissReasons ==
  {EMPTY, "ill"}
\* <<day, time>> of the booking form
BookInputs ==
  {<<Today - 1, 1>>, <<Today + 1, 1>>}
\* <<day, time>> of the reschedule form
RescheduleInputs ==
  {<<NoDay, 1>>, <<Today, NoTime>>, <<Today - 1, 1>>, <<Today, 0>>,
   <<Today, 1>>, <<Today + 1, 1>>}
CompletionDays ==
  {Today - CorrectionWindowDays - 1, Today - CorrectionWindowDays, Today,
   Today + 1}
OtherTexts ==
  {EMPTY, " ", "moved away"}

CompletionInput(cd, approx, action, nd, nt, er, eo, ed) ==
  [completionDate |-> cd, isApproximate |-> approx, postVisitAction |-> action,
   nextApptDate |-> nd, nextApptTime |-> nt, exitReason |-> er,
   exitOtherReason |-> eo, exitDate |-> ed]

\* the form as initCompletionFlow leaves it, with the attended date changed
\* and the fields of the chosen follow-up filled in
CompletionInputs ==
  {CompletionInput(cd, FALSE, NULL, NoDay, 1, "COMPLETED", EMPTY, Today) :
     cd \in CompletionDays}
  \cup
  {CompletionInput(cd, FALSE, "NEXT_APPT", Today + 1, 1, "COMPLETED", EMPTY,
                   Today) : cd \in CompletionDays}
  \cup
  {CompletionInput(Today, TRUE, "NEXT_APPT", NoDay, 1, "COMPLETED", EMPTY,
                   Today),
   CompletionInput(Today, TRUE, "EXIT", NoDay, 1, "COMPLETED", EMPTY, Today)}
  \cup
  {CompletionInput(Today, FALSE, "EXIT", NoDay, 1, "OTHER", eo, Today) :
     eo \in OtherTexts}

\* a next visit today, at a time of day that has passed
NextVisitToday ==
  {CompletionInput(Today, FALSE, "NEXT_APPT", Today, 0, "COMPLETED", EMPTY,
                   Today)}

\* previews of the bulk entry: pasted lines as handleParse leaves them
TwoRowsOneNewId ==
  << BulkEntryRow("N010", "Ann", "111", NoDay, parseISO(Today), EMPTY),
     BulkEntryRow("N010", "Bea", EMPTY, parseISO(Today - 1),
                  parseISO(Today + 1), EMPTY) >>
ThreeRowsSecondUnparseable ==
  << BulkEntryRow("A001", EMPTY, EMPTY, NoDay, parseISO(Today - 1), EMPTY),
     BulkEntryRow("S002", "Rob", EMPTY, NoDay, NoDay, EMPTY),
     BulkEntryRow("A001", "Alice Freeman (AIIMS)", EMPTY, NoDay,
                  parseISO(Today + 1), EMPTY) >>
TwoRowsOneKnownId ==
  << BulkEntryRow("S002", "Rob", EMPTY, NoDay, parseISO(Today + 1), EMPTY),
     BulkEntryRow("S002", EMPTY, "222", NoDay, parseISO(Today + 1), EMPTY) >>
NoValidRow ==
  << BulkEntryRow(EMPTY, "Ann", EMPTY, NoDay, parseISO(Today), EMPTY),
     BulkEntryRow("A001", EMPTY, EMPTY, NoDay, NoDay, EMPTY) >>
NewAndKnownId ==
  << BulkEntryRow("N010", EMPTY, EMPTY, NoDay, parseISO(Today), EMPTY),
     BulkEntryRow("A001", "Alice F", EMPTY, parseISO(Today - 1),
                  parseISO(Today + 1), "call first") >>
Previews ==
  {TwoRowsOneNewId, ThreeRowsSecondUnparseable, TwoRowsOneKnownId, NoValidRow,
   NewAndKnownId}

\* <<id, name, comment>> of the create form
CreateInputs ==
  {<<"N010", "Ann", "enrolled">>, <<"A001", "Ann", "enrolled">>,
   <<"N010", "Ann", " ">>, <<"N010", "Ann", EMPTY>>}
\* <<selected subject, name, comment>> of the edit form
EditInputs ==
  {<<"A001", "Alice F", "married">>, <<"A001", "Alice F", " ">>}
\* <<selected subject, reason, text of OTHER>> of the exit form
DeleteInputs ==
  {<<"S002", "COMPLETED", EMPTY>>, <<"S002", "REMOVAL", EMPTY>>,
   <<"S002", "EXPULSION", EMPTY>>, <<"S002", "OTHER", EMPTY>>,
   <<"S002", "OTHER", " ">>, <<"S002", "OTHER", "moved away">>}

(***************************************************************************)
(* Specification                                                           *)
(***************************************************************************)
Next ==
  \/ Bootstrap
  \/ Reload
  \/ handleLogin
  \/ Tick
  \/ \E id \in ApptIds : handleStatusUpdateMissed(id)
  \/ \E r \in MissReasons : saveReason(r)
  \/ cancelEdit
  \/ \E id \in ApptIds : initCompletionFlow(id)
  \/ \E in \in CompletionInputs : handleCompletionSubmit(in)
  \/ cancelCompletion
  \/ \E id \in ApptIds : openRescheduleModal(id)
  \/ \E in \in RescheduleInputs : handleRescheduleSubmit(in[1], in[2])
  \/ cancelReschedule
  \/ \E sid \in BookSubjects, in \in BookInputs :
       handleBookSubmit(sid, in[1], in[2])

Spec ==
  Init /\ [][Next]_vars

\* the session, the directory view and the bulk entry
NextDirectory ==
  \/ Bootstrap
  \/ handleLogin
  \/ Tick
  \/ \E sid \in BookSubjects, in \in BookInputs :
       handleBookSubmit(sid, in[1], in[2])
  \/ \E previewData \in Previews : handleCommit(previewData)
  \/ \E in \in CreateInputs : handleSubmitCreate(in[1], in[2], in[3])
  \/ \E in \in EditInputs : handleSubmitEdit(in[1], in[2], in[3])
  \/ \E in \in DeleteInputs :
       handleSubmitDelete(in[1], in[2], in[3], Today, FALSE)

SpecDirectory ==
  Init /\ [][NextDirectory]_vars

\* every view together, to one step less
NextApp ==
  /\ Next \/ NextDirectory \/ handleLogout
  /\ ops' < MaxOps

SpecApp ==
  Init /\ [][NextApp]_vars

\* logs given to the change-log view.  The timestamp of an entry is the
\* wall clock of the browser at the time of the entry, which can be set back
\* between two entries: the entries come in any order of their timestamps.
LoggedEntry(id, in) ==
  ChangeLogEntry(id, in[2], [id |-> "S002", name |-> "Bob Smith (SJH)"], in[1],
                 "details", "comment")

LogsGiven ==
  UNION {{[k \in 1..n |-> LoggedEntry(k, f[k])] :
            f \in [1..n -> {"CREATE", "UPDATE", "DELETE"}
                             \X {StartNow - 1, StartNow}]} :
         n \in 0..MaxLogs}

FilterTypes ==
  {"ALL", "DELETE"}

\* a session in the change-log view
InitChangeLog ==
  /\ now = StartNow
  /\ mounted = TRUE
  /\ currentUser = DEFAULT_ADMIN
  /\ subjects = MOCK_SUBJECTS(StartNow)
  /\ appointments = <<>>
  /\ changeLogs \in LogsGiven
  /\ editingId = NoId
  /\ rescheduleApp = None
  /\ completionApp = None
  /\ localStorage = Snapshot(subjects, appointments, changeLogs, currentUser)
  /\ uuid = MaxLogs + 1
  /\ last = NoOp
  /\ ops = 0

NextChangeLog ==
  \E filterType \in FilterTypes : setFilterType(filterType)

SpecChangeLog ==
  InitChangeLog /\ [][NextChangeLog]_vars

\* what the drafting service does: <<client, response>>
DraftingService ==
  {<<THROWS, EMPTY>>, <<"client", THROWS>>, <<"client", UNDEF>>,
   <<"client", EMPTY>>, <<"client", "Dear Alice, we missed you.">>}

\* the session, the booking form and the communication centre
NextCommunications ==
  \/ Bootstrap
  \/ Reload
  \/ handleLogin
  \/ Tick
  \/ \E sid \in BookSubjects, in \in BookInputs :
       handleBookSubmit(sid, in[1], in[2])
  \/ \E id \in ApptIds, svc \in DraftingService :
       handleGenerateDraft(id, svc[1], svc[2])

SpecCommunications ==
  Init /\ [][NextCommunications]_vars

ExportTypes ==
  {"ALL", "UPCOMING"}

ExportSites ==
  {"ALL", "SJH"}

\* the session, the directory and the views that only read
NextReports ==
  \/ Bootstrap
  \/ Reload
  \/ handleLogin
  \/ Tick
  \/ \E sid \in BookSubjects, in \in BookInputs :
       handleBookSubmit(sid, in[1], in[2])
  \/ \E in \in EditInputs : handleSubmitEdit(in[1], in[2], in[3])
  \/ \E in \in DeleteInputs :
       handleSubmitDelete(in[1], in[2], in[3], Today, FALSE)
  \/ \E filterType \in FilterTypes : setFilterType(filterType)
  \/ \E exportType \in ExportTypes, exportSite \in ExportSites :
       handleExport(exportType, exportSite)
  \/ handleExportExited
  \/ \E id \in ApptIds, svc \in DraftingService :
       handleGenerateDraft(id, svc[1], svc[2])

SpecReports ==
  Init /\ [][NextReports]_vars

\* what an earlier session left in localStorage: A001 attended a visit
\* booked for the day before, five days before it, and has a next visit
CompletedSession ==
  Snapshot(MOCK_SUBJECTS(StartNow),
           << Appointment(1, "A001",
                          DateTime(StartDay - CorrectionWindowDays, 1),
                          COMPLETED, UNDEF,
                          <<AttendedNote(StartDay - CorrectionWindowDays,
                                         FALSE)>>),
              Appointment(2, "A001", DateTime(StartDay + 1, 1), SCHEDULED,
                          UNDEF, <<>>) >>,
           <<>>, DEFAULT_ADMIN)

InitCompleted ==
  /\ now = StartNow
  /\ mounted = FALSE
  /\ currentUser = NULL
  /\ subjects = <<>>
  /\ appointments = <<>>
  /\ changeLogs = <<>>
  /\ editingId = NoId
  /\ rescheduleApp = None
  /\ completionApp = None
  /\ localStorage = CompletedSession
  /\ uuid = 3
  /\ last = NoOp
  /\ ops = 0

\* the calendar, the booking form and the bulk entry
NextCompleted ==
  /\ \/ Next
     \/ \E in \in NextVisitToday : handleCompletionSubmit(in)
     \/ \E previewData \in {TwoRowsOneNewId, ThreeRowsSecondUnparseable} :
          handleCommit(previewData)
  /\ ops' < MaxOps

SpecCompleted ==
  InitCompleted /\ [][NextCompleted]_vars

\* the session, the booking form and the communication centre with its
\* requests in flight
NextDrafts ==
  \/ Bootstrap
  \/ Reload
  \/ handleLogin
  \/ \E sid \in BookSubjects, in \in BookInputs :
       handleBookSubmit(sid, in[1], in[2])
  \/ \E id \in ApptIds : draftRequested(id)
  \/ \E k \in 1..MaxInFlight, svc \in DraftingService :
       draftSettled(k, svc[1], svc[2])

SpecDrafts ==
  Init /\ [][NextDrafts]_vars

(***************************************************************************)
(* Properties.  An action property relates the state an operation started  *)
(* in (unprimed) to the state it left (primed); last' names the operation. *)
(***************************************************************************)
DataUnchanged ==
  UNCHANGED <<subjects, appointments, changeLogs>>

StatusOf(apps, id) ==
  FindAppt(apps, id)[1].status

\* the operation that ended is a completion submitted from the open modal
Completing ==
  last'.op = "complete" /\ completionApp # None

\* exactly one Scheduled appointment of that subject was added, nobody left
NextVisitAdded(subjectId) ==
  /\ Len(appointments') = Len(appointments) + 1
  /\ appointments'[Len(appointments')].status = SCHEDULED
  /\ appointments'[Len(appointments')].subjectId = subjectId
  /\ subjects' = subjects
  /\ changeLogs' = changeLogs

\* the subject left the directory with one DELETE entry, nothing was added
SubjectExited(subjectId) ==
  /\ FindSubject(subjects, subjectId) # None
  /\ FindSubject(subjects', subjectId) = None
  /\ Len(subjects') = Len(subjects) - 1
  /\ Len(changeLogs') = Len(changeLogs) + 1
  /\ SubSeq(changeLogs', 1, Len(changeLogs)) = changeLogs
  /\ changeLogs'[Len(changeLogs')].changeType = "DELETE"
  /\ changeLogs'[Len(changeLogs')].subjectId = subjectId
  /\ Len(appointments') = Len(appointments)

\* C1: a completion that turns an appointment Completed performs exactly one
\* follow-up: one new Scheduled appointment of the same subject, or the exit
\* of the subject with one DELETE entry; never neither, never both.
C1_CompletionHasOneFollowUp ==
  [][(/\ Completing
      /\ StatusOf(appointments, completionApp[1].id) # COMPLETED
      /\ StatusOf(appointments', completionApp[1].id) = COMPLETED)
     => (NextVisitAdded(completionApp[1].subjectId)
         # SubjectExited(completionApp[1].subjectId))]_vars

RejectedOutcomes ==
  {"blocked", "FutureMissedNotAllowed", "CorrectionWindowExceeded",
   "MissingFollowUpChoice", "MissingNextDate", "MissingReasonText",
   "PastRescheduleDate"}

\* C2: an operation that validation rejects leaves the directory, the store
\* and the change log as they were.
C2_RejectedChangesNothing ==
  [][last'.outcome \in RejectedOutcomes => DataUnchanged]_vars

\* C3: a completion submitted with no follow-up action is rejected; the
\* appointment, the store and the directory are as before.
C3_NoFollowUpChoiceRejected ==
  [][(Completing /\ last'.postVisitAction = NULL)
     => /\ last'.outcome \in RejectedOutcomes
        /\ DataUnchanged
        /\ completionApp' = completionApp]_vars

C3_Witness ==
  /\ last.op = "complete"
  /\ last.postVisitAction = NULL
  /\ last.outcome = "MissingFollowUpChoice"
  /\ completionApp # None

\* the operation that ended is a completion of a Missed appointment
Correcting ==
  Completing /\ last'.was = MISSED

\* C4: the correction of a Missed appointment with an attended date 5 days
\* before today is not refused for its date, and is carried out when a next
\* visit is given; with an attended date 6 days before today it is refused
\* and nothing changes.
C4_CorrectionWindowLowerBound ==
  [][Correcting =>
       /\ last'.completionDate = Today - CorrectionWindowDays =>
            /\ last'.outcome \notin {"blocked", "CorrectionWindowExceeded"}
            /\ (last'.postVisitAction = "NEXT_APPT" /\ last'.nextApptDate # NoDay)
                 => /\ last'.outcome = "ok"
                    /\ StatusOf(appointments', last'.id) = COMPLETED
       /\ last'.completionDate = Today - CorrectionWindowDays - 1 =>
            /\ last'.outcome \in {"blocked", "CorrectionWindowExceeded"}
            /\ DataUnchanged]_vars

C4_Witness ==
  /\ last.op = "complete"
  /\ last.was = MISSED
  /\ last.completionDate = Today - CorrectionWindowDays
  /\ last.outcome = "ok"
  /\ StatusOf(appointments, last.id) = COMPLETED

SavingReason ==
  last'.op = "markMissed" /\ last'.outcome = "ok"

MissedRefusedIffFuture ==
  /\ (last'.op = "markMissed" /\ last'.outcome = "FutureMissedNotAllowed")
       => /\ isAfter(FindAppt(appointments, last'.id)[1].date, now)
          /\ DataUnchanged
          /\ editingId' = editingId
  /\ last'.op = "editReason"
       => /\ ~isAfter(FindAppt(appointments, last'.id)[1].date, now)
          /\ DataUnchanged

\* C6: Missed is refused for an appointment dated after now, with nothing
\* changed; otherwise the Scheduled appointment becomes Missed with the
\* supplied reason (a blank reason being stored as no reason).
C6_MissedStoresSuppliedReason ==
  [][/\ MissedRefusedIffFuture
     /\ (SavingReason /\ StatusOf(appointments, last'.id) = SCHEDULED)
          => LET after == FindAppt(appointments', last'.id)[1]
             IN /\ after.status = MISSED
                /\ after.followUpReason
                     = OrElse(last'.reason, UNDEF)]_vars

\* C7: right after the bootstrap pass no appointment is Scheduled with a
\* date before now; every loaded appointment that was is Missed with the
\* reason "Auto-detected: Past date" and one more note, every other one is
\* as loaded.
C7_BootstrapAutoMiss ==
  last.op = "bootstrap" =>
    /\ Len(appointments) = Len(last.loaded)
    /\ \A i \in 1..Len(appointments) :
         LET was == last.loaded[i]
             is == appointments[i]
         IN /\ ~(is.status = SCHEDULED /\ is.date < now)
            /\ IF was.status = SCHEDULED /\ was.date < now
               THEN is = [was EXCEPT
                            !.status = MISSED,
                            !.followUpReason = "Auto-detected: Past date",
                            !.notes = Append(was.notes, MissedNote)]
               ELSE is = was

C7_Witness ==
  /\ last.op = "bootstrap"
  /\ \E i \in 1..Len(last.loaded) :
       /\ last.loaded[i].status = SCHEDULED
       /\ last.loaded[i].date < now
       /\ appointments[i].status = MISSED
  /\ \E i \in 1..Len(last.loaded) : last.loaded[i].status # SCHEDULED

\* C8: a second bootstrap pass at the same now changes nothing.
C8_AutoMissIdempotent ==
  last.op = "bootstrap" => AutoMissPass(appointments, now) = appointments

C8_Witness ==
  /\ last.op = "bootstrap"
  /\ appointments # last.loaded
  /\ AutoMissPass(appointments, now) = appointments

\* the operation that ended is a reschedule submitted from the open modal
Rescheduling ==
  last'.op = "reschedule" /\ rescheduleApp # None

NewDate ==
  DateTime(last'.day, last'.time)

DateGiven ==
  last'.day # NoDay /\ last'.time # NoTime

C10_RescheduleEffect ==
  [][(/\ Rescheduling
      /\ last'.outcome = "ok"
      /\ StatusOf(appointments, last'.id) \in {SCHEDULED, MISSED})
     => /\ Len(appointments') = Len(appointments)
        /\ subjects' = subjects
        /\ \A i \in 1..Len(appointments) :
             IF appointments[i].id = last'.id
             THEN appointments'[i] =
                    [appointments[i] EXCEPT
                       !.date = NewDate,
                       !.status = SCHEDULED,
                       !.notes = Append(appointments[i].notes,
                                   RescheduledNote(DayOf(appointments[i].date)))]
             ELSE appointments'[i] = appointments[i]]_vars

C10_Witness ==
  /\ last.op = "reschedule"
  /\ last.outcome = "ok"
  /\ last.was = MISSED
  /\ LET app == FindAppt(appointments, last.id)[1]
     IN /\ app.status = SCHEDULED
        /\ app.date = DateTime(last.day, last.time)
        /\ app.notes # <<>>

(***************************************************************************)
(* Properties of the bulk entry                                            *)
(***************************************************************************)
\* the operation that ended is a commit of a preview that was carried out
Importing ==
  last'.op = "import" /\ last'.outcome = "ok"

\* the rows of a preview that reach handleBulkAdd
ValidRows(preview) ==
  LET Valid(row) == row.subjectId # EMPTY /\ row.appointmentDate # NoDay
  IN SelectSeq(preview, Valid)

RowsOf(rows, id) ==
  {k \in 1..Len(rows) : rows[k].subjectId = id}

WithId(subs, id) ==
  {k \in 1..Len(subs) : subs[k].id = id}

\* C11: an import with two rows of one id that is not in the directory
\* leaves exactly one subject of that id, whose name, phone and insertion
\* date are those of the second row wherever the second row gives one.
C11_SecondRowOverridesFirst ==
  [][Importing =>
       LET rows == ValidRows(last'.rows)
       IN \A i, j \in 1..Len(rows) :
            (/\ i < j
             /\ RowsOf(rows, rows[i].subjectId) = {i, j}
             /\ WithId(subjects, rows[i].subjectId) = {})
            => /\ Cardinality(WithId(subjects', rows[i].subjectId)) = 1
               /\ LET sub == FindSubject(subjects', rows[i].subjectId)[1]
                  IN /\ rows[j].name # EMPTY => sub.name = rows[j].name
                     /\ rows[j].phone # EMPTY => sub.phone = rows[j].phone
                     /\ rows[j].insertionDate # NoDay
                          => sub.insertionDate = rows[j].insertionDate]_vars

\* C12: an import adds one appointment per valid row, in the order of the
\* rows, for the subject and the date of the row and under an id of its
\* own, and leaves the appointments it found as they were; with no valid
\* row it is refused and nothing changes.
C12_OneAppointmentPerValidRow ==
  [][last'.op = "import" =>
       LET rows == ValidRows(last'.rows)
           n == Len(appointments)
       IN IF Len(rows) = 0
          THEN last'.outcome = "NoValidRows" /\ DataUnchanged
          ELSE /\ last'.outcome = "ok"
               /\ Len(appointments') = n + Len(rows)
               /\ SubSeq(appointments', 1, n) = appointments
               /\ \A k \in 1..Len(rows) :
                    /\ appointments'[n + k].subjectId = rows[k].subjectId
                    /\ appointments'[n + k].date = rows[k].appointmentDate
                    /\ \A m \in 1..(n + Len(rows)) :
                         appointments'[m].id = appointments'[n + k].id
                           => m = n + k]_vars

C12_Witness ==
  /\ last.op = "import"
  /\ last.outcome = "ok"
  /\ Len(ValidRows(last.rows)) = 2
  /\ Len(last.rows) = 3
  /\ Len(appointments) > 2

\* C13: an appointment made by an import is Missed with the reason "Past
\* date on bulk entry" when the date of its row is before now, and Scheduled
\* with no reason otherwise, a date equal to now included.
C13_BulkStatusByDate ==
  [][Importing =>
       LET rows == ValidRows(last'.rows)
           n == Len(appointments)
       IN \A k \in 1..Len(rows) :
            IF rows[k].appointmentDate < now
            THEN /\ appointments'[n + k].status = MISSED
                 /\ appointments'[n + k].followUpReason
                      = "Past date on bulk entry"
            ELSE /\ appointments'[n + k].status = SCHEDULED
                 /\ appointments'[n + k].followUpReason = UNDEF]_vars

C13_Witness ==
  /\ last.op = "import"
  /\ last.outcome = "ok"
  /\ \E k \in 1..Len(appointments) :
       /\ appointments[k].date = now
       /\ appointments[k].status = SCHEDULED
  /\ \E k \in 1..Len(appointments) :
       appointments[k].followUpReason = "Past date on bulk entry"

\* the greatest element of a non-empty set of row numbers
Latest(ks) ==
  CHOOSE k \in ks : \A m \in ks : m <= k

\* C14: after an import, a subject that was in the directory has, for each
\* of name, phone and insertion date, the value of the last row of its id
\* that gives one, or the value it had when no row gives one; its place,
\* id, email, alternative phone and notes are as before.
C14_LastGivenValueWins ==
  [][Importing =>
       LET rows == ValidRows(last'.rows)
       IN /\ Len(subjects') >= Len(subjects)
          /\ \A s \in 1..Len(subjects) :
               LET was == subjects[s]
                   is == subjects'[s]
                   mine == RowsOf(rows, was.id)
                   names == {k \in mine : rows[k].name # EMPTY}
                   phones == {k \in mine : rows[k].phone # EMPTY}
                   dates == {k \in mine : rows[k].insertionDate # NoDay}
               IN /\ is.name = IF names = {} THEN was.name
                                ELSE rows[Latest(names)].name
                  /\ is.phone = IF phones = {} THEN was.phone
                                 ELSE rows[Latest(phones)].phone
                  /\ is.insertionDate
                       = IF dates = {} THEN was.insertionDate
                         ELSE rows[Latest(dates)].insertionDate
                  /\ is.id = was.id
                  /\ is.email = was.email
                  /\ is.altPhone = was.altPhone
                  /\ is.notes = was.notes]_vars

\* the row gives nothing that the subject of its id does not have already
NoOpRow(row, subs) ==
  /\ WithId(subs, row.subjectId) # {}
  /\ LET existing == FindSubject(subs, row.subjectId)[1]
     IN /\ row.name \in {EMPTY, existing.name}
        /\ row.phone \in {EMPTY, existing.phone}
        /\ row.insertionDate \in {NoDay, existing.insertionDate}

\* C15: an import counts as updates the rows of subjects of the directory
\* that give something new, and no others; when every row is for a subject
\* of the directory and gives nothing new, the directory is as before and
\* the log grows by the appointment summary alone.
C15_NoOpRowsStageNothing ==
  [][Importing =>
       LET rows == ValidRows(last'.rows)
           changing == {k \in 1..Len(rows) :
                          /\ WithId(subjects, rows[k].subjectId) # {}
                          /\ ~NoOpRow(rows[k], subjects)}
       IN /\ last'.updatedSubs = Cardinality(changing)
          /\ (\A k \in 1..Len(rows) : NoOpRow(rows[k], subjects))
               => /\ subjects' = subjects
                  /\ Len(changeLogs') = Len(changeLogs) + 1
                  /\ SubSeq(changeLogs', 1, Len(changeLogs)) = changeLogs
                  /\ changeLogs'[Len(changeLogs')].subjectName
                       = "Bulk Appts"]_vars

C15_Witness ==
  /\ last.op = "import"
  /\ last.outcome = "ok"
  /\ last.newSubs = 0 /\ last.updatedSubs = 0
  /\ \E k \in 1..Len(last.rows) : last.rows[k].name # EMPTY
  /\ Len(changeLogs) = 1
  /\ changeLogs[1].subjectName = "Bulk Appts"
  /\ Len(appointments) = 2

\* C16: an import appends to the log, after what it found there, a subject
\* summary exactly when it changed the directory, then an appointment
\* summary exactly when it added appointments, and nothing else; the
\* summaries carry the counts of the batch.
C16_AtMostTwoSummaries ==
  [][last'.op = "import" =>
       LET n == Len(changeLogs)
           k1 == IF subjects' # subjects THEN 1 ELSE 0
           k2 == IF Len(appointments') > Len(appointments) THEN 1 ELSE 0
       IN /\ Len(changeLogs') = n + k1 + k2
          /\ SubSeq(changeLogs', 1, n) = changeLogs
          /\ k1 = 1 =>
               /\ changeLogs'[n + 1].subjectId = "BATCH"
               /\ changeLogs'[n + 1].subjectName = "Bulk Ops"
               /\ changeLogs'[n + 1].changeType = "UPDATE"
               /\ changeLogs'[n + 1].details[2]
                    = Len(subjects') - Len(subjects)
               /\ changeLogs'[n + 1].details[4] = last'.updatedSubs
          /\ k2 = 1 =>
               /\ changeLogs'[n + k1 + 1].subjectId = "BATCH"
               /\ changeLogs'[n + k1 + 1].subjectName = "Bulk Appts"
               /\ changeLogs'[n + k1 + 1].changeType = "CREATE"
               /\ changeLogs'[n + k1 + 1].details[2]
                    = Len(appointments') - Len(appointments)]_vars

C16_Witness ==
  /\ last.op = "import"
  /\ last.outcome = "ok"
  /\ last.newSubs = 1 /\ last.updatedSubs = 1
  /\ Len(changeLogs) >= 3
  /\ changeLogs[Len(changeLogs) - 1].subjectName = "Bulk Ops"
  /\ changeLogs[Len(changeLogs)].subjectName = "Bulk Appts"

(***************************************************************************)
(* Properties of the directory and of the change log                       *)
(***************************************************************************)
Blank(text) ==
  text \in {"", " "}

NoTextReasons ==
  {"REMOVAL", "EXPULSION", "COMPLETED"}

\* the operation that ended is a submit of the exit form of the directory
Exiting ==
  last'.op = "exitSubject"

\* the operation that ended is a completion with the follow-up Exit Study
CompletingWithExit ==
  Completing /\ last'.postVisitAction = "EXIT"

\* C17: an exit with the reason Other and a text that is empty or blank is
\* rejected, from the directory and from the completion of a visit alike:
\* the subject stays and the log is as before.  With the reason Removal,
\* Expulsion or Completed Study an exit is never rejected for its text.
C17_OtherNeedsText ==
  [][/\ (Exiting /\ last'.exitReason = "OTHER" /\ Blank(last'.exitOtherReason))
          => /\ last'.outcome \in RejectedOutcomes
             /\ DataUnchanged
     /\ (/\ CompletingWithExit
         /\ last'.exitReason = "OTHER"
         /\ Blank(last'.exitOtherReason))
          => /\ last'.outcome \in RejectedOutcomes
             /\ subjects' = subjects
             /\ changeLogs' = changeLogs
     /\ (Exiting /\ last'.exitReason \in NoTextReasons)
          => /\ last'.outcome = "ok"
             /\ WithId(subjects', last'.id) = {}
     /\ (CompletingWithExit /\ last'.exitReason \in NoTextReasons)
          => last'.outcome # "MissingReasonText"]_vars

C17_Witness ==
  /\ last.op = "exitSubject"
  /\ last.exitReason = "OTHER"
  /\ last.exitOtherReason = " "
  /\ last.outcome = "MissingReasonText"
  /\ WithId(subjects, last.id) # {}

\* the directory lost the subject id and nothing else, in place
OnlySubjectLeft(id) ==
  /\ Cardinality(WithId(subjects, id)) = 1
  /\ Len(subjects') = Len(subjects) - 1
  /\ LET at == CHOOSE k \in WithId(subjects, id) : TRUE
     IN \A k \in 1..Len(subjects') :
          subjects'[k] = subjects[IF k < at THEN k ELSE k + 1]

\* the log grew by one entry of that type for that subject, made now
OneEntryAppended(type, id, name) ==
  /\ Len(changeLogs') = Len(changeLogs) + 1
  /\ SubSeq(changeLogs', 1, Len(changeLogs)) = changeLogs
  /\ LET entry == changeLogs'[Len(changeLogs')]
     IN /\ entry.changeType = type
        /\ entry.subjectId = id
        /\ entry.subjectName = name
        /\ entry.timestamp = now

\* the comment of the new entry tells the reason, the date and whether the
\* date is approximate
ExitCommentTells(reason, text, day, approx) ==
  LET comment == changeLogs'[Len(changeLogs')].comment
  IN /\ comment.reason = IF reason = "OTHER" THEN <<"OTHER:", text>>
                         ELSE <<reason>>
     /\ comment.on = day
     /\ comment.approx = approx

\* C18: an exit that is carried out takes that subject and no other out of
\* the directory and appends one DELETE entry whose comment tells the reason,
\* the date and the approximation; from the directory it leaves every
\* appointment as it was, from the completion of a visit it leaves every
\* appointment but the completed one as it was, and none changes subject.
C18_ExitKeepsAppointments ==
  [][/\ (Exiting /\ last'.outcome = "ok")
          => /\ OnlySubjectLeft(last'.id)
             /\ OneEntryAppended("DELETE", last'.id,
                                 FindSubject(subjects, last'.id)[1].name)
             /\ ExitCommentTells(last'.exitReason, last'.exitOtherReason,
                                 last'.exitDate, last'.exitApproximate)
             /\ appointments' = appointments
     /\ (CompletingWithExit /\ last'.outcome = "ok")
          => LET id == completionApp[1].subjectId
             IN /\ OnlySubjectLeft(id)
                /\ OneEntryAppended("DELETE", id,
                                    FindSubject(subjects, id)[1].name)
                /\ ExitCommentTells(last'.exitReason, last'.exitOtherReason,
                                    last'.exitDate, last'.isApproximate)
                /\ Len(appointments') = Len(appointments)
                /\ \A k \in 1..Len(appointments) :
                     /\ appointments'[k].subjectId = appointments[k].subjectId
                     /\ appointments[k].id # last'.id
                          => appointments'[k] = appointments[k]]_vars

C18_Witness ==
  /\ last.op = "exitSubject"
  /\ last.outcome = "ok"
  /\ WithId(subjects, last.id) = {}
  /\ \E k \in 1..Len(appointments) : appointments[k].subjectId = last.id
  /\ changeLogs[Len(changeLogs)].changeType = "DELETE"
  /\ changeLogs[Len(changeLogs)].subjectId = last.id

IsPrefix(s, t) ==
  Len(s) <= Len(t) /\ SubSeq(t, 1, Len(s)) = s

\* the log of the session, or what is stored of it between two sessions
Ledger ==
  IF mounted THEN changeLogs
  ELSE IF localStorage.pt_changelogs = None THEN <<>>
       ELSE localStorage.pt_changelogs[1]

\* C19: whatever is done, the log after it begins with the log before it;
\* the log a session starts with is the log the one before ended with.
C19_LogAppendOnly ==
  [][IsPrefix(Ledger, Ledger')]_vars

C19_Witness ==
  /\ last.op = "bootstrap"
  /\ Len(changeLogs) >= 2
  /\ changeLogs[1].changeType # changeLogs[2].changeType

Store ==
  IF mounted THEN appointments
  ELSE IF localStorage.pt_appointments = None THEN <<>>
       ELSE localStorage.pt_appointments[1]

\* the places of the store whose appointment changes status in the step
StatusChanged ==
  {i \in 1..Len(Store) : i <= Len(Store') /\ Store'[i].status # Store[i].status}

\* the places of the log the step appended
Appended ==
  (Len(Ledger) + 1)..Len(Ledger')

\* C21: a step that changes the status of appointments appends one UPDATE
\* entry for each of them, whose details name the old and the new status,
\* and no other UPDATE entry.
C21_StatusTransitionLogged ==
  [][StatusChanged # {} =>
       /\ IsPrefix(Ledger, Ledger')
       /\ Cardinality({k \in Appended : Ledger'[k].changeType = "UPDATE"})
            = Cardinality(StatusChanged)
       /\ \A i \in StatusChanged :
            \E k \in Appended :
              /\ Ledger'[k].changeType = "UPDATE"
              /\ Ledger'[k].details
                   = <<"Status:", Store[i].status, "->", Store'[i].status>>]_vars

\* the operation that ended is a submit of the create or of the edit form
SubmittingSubject ==
  last'.op \in {"createSubject", "updateSubject"}

\* C22: a create or an update of a subject with a comment that is empty or
\* blank is rejected, the directory and the log are as before; every entry
\* that an operation appends to the log has a comment that is not empty: the
\* comment of the form for a create or an update, the exit note for an exit,
\* a fixed text for an import and for a manual status change.
C22_CommentRequired ==
  [][/\ (SubmittingSubject /\ Blank(last'.comment))
          => /\ last'.outcome \in {"blocked", "MissingRequiredComment"}
             /\ DataUnchanged
     /\ \A k \in Appended :
          LET entry == Ledger'[k]
          IN CASE SubmittingSubject ->
                    entry.comment = last'.comment /\ ~Blank(entry.comment)
               [] last'.op \in {"exitSubject", "complete"} ->
                    /\ entry.changeType = "DELETE"
                    /\ entry.comment.text = "Exit Study:"
               [] last'.op = "import" -> ~Blank(entry.comment)
               [] last'.op = "markMissed" ->
                    entry.comment[1] = "Manual change."
               [] OTHER -> FALSE]_vars

C22_Witness ==
  /\ last.op = "updateSubject"
  /\ last.comment = " "
  /\ last.outcome = "MissingRequiredComment"
  /\ Len(changeLogs) = 1
  /\ changeLogs[1].changeType = "CREATE"
  /\ changeLogs[1].comment = "enrolled"

\* no two subjects of the directory have the same id
UniqueIds(subs) ==
  \A i, j \in 1..Len(subs) : subs[i].id = subs[j].id => i = j

\* the directory of the session, or what is stored of it between two
\* sessions
Directory ==
  IF mounted THEN subjects
  ELSE IF localStorage.pt_subjects = None THEN <<>>
       ELSE localStorage.pt_subjects[1]

\* C23: after every operation the ids of the directory are unique; a create
\* for an id of the directory is rejected, the directory and the log are as
\* before; an import adds one subject for each id of its rows that is not in
\* the directory, and none for an id that is.
C23_SubjectIdsUnique ==
  [][/\ UniqueIds(Directory')
     /\ (last'.op = "createSubject" /\ WithId(subjects, last'.id) # {})
          => /\ last'.outcome # "ok"
             /\ DataUnchanged
     /\ Importing =>
          LET rows == ValidRows(last'.rows)
              ids == {rows[k].subjectId : k \in 1..Len(rows)}
          IN /\ \A id \in ids :
                  Cardinality(WithId(subjects', id)) = 1
             /\ Len(subjects') =
                  Len(subjects)
                    + Cardinality({id \in ids : WithId(subjects, id) = {}})]_vars

C23_Witness ==
  /\ last.op = "import"
  /\ last.outcome = "ok"
  /\ Len(last.rows) = 2
  /\ last.rows[1].subjectId = "N010"
  /\ last.rows[2].subjectId = "N010"
  /\ last.newSubs = 1
  /\ Cardinality(WithId(subjects, "N010")) = 1
  /\ Len(subjects) = 4

\* C24: the list of the change-log view is in non-increasing order of
\* timestamp whatever the order of the log; with the filter DELETE it holds
\* the DELETE entries of the log, each once, and no other; with no filter it
\* holds every entry of the log, each once.
C24_ListSortedAndFiltered ==
  last.op = "listChangeLog" =>
    LET out == last.filteredLogs
        wanted == {k \in 1..Len(changeLogs) :
                     last.filterType = "DELETE"
                       => changeLogs[k].changeType = "DELETE"}
    IN /\ \A k \in 1..(Len(out) - 1) : out[k].timestamp >= out[k + 1].timestamp
       /\ Len(out) = Cardinality(wanted)
       /\ {out[k] : k \in 1..Len(out)} = {changeLogs[k] : k \in wanted}

C24_Witness ==
  /\ last.op = "listChangeLog"
  /\ last.filterType = "DELETE"
  /\ Len(changeLogs) = 3
  /\ changeLogs[1].changeType = "DELETE"
  /\ changeLogs[2].changeType = "UPDATE"
  /\ changeLogs[3].changeType = "DELETE"
  /\ changeLogs[1].timestamp < changeLogs[3].timestamp
  /\ last.filteredLogs = <<changeLogs[3], changeLogs[1]>>

\* C25: an update of a subject that is carried out leaves the directory
\* with the same ids at the same places, and with every record but the one
\* of the edited id as it was; the edited record keeps its id.
C25_UpdateKeepsIds ==
  [][(last'.op = "updateSubject" /\ last'.outcome = "ok")
     => /\ Len(subjects') = Len(subjects)
        /\ WithId(subjects, last'.id) # {}
        /\ \A k \in 1..Len(subjects) :
             /\ subjects'[k].id = subjects[k].id
             /\ subjects[k].id # last'.id => subjects'[k] = subjects[k]]_vars

C25_Witness ==
  /\ last.op = "updateSubject"
  /\ last.outcome = "ok"
  /\ Len(subjects) = 3
  /\ subjects[1].id = "A001"
  /\ subjects[1].name = "Alice F"
  /\ subjects[2].name = "Bob Smith (SJH)"

ApptIdsOf(apps) ==
  {apps[k].id : k \in 1..Len(apps)}

\* C26: whatever is done, a reload and the exit of a subject included, every
\* appointment id of the store before it is an id of the store after it.
C26_AppointmentsNeverDeleted ==
  [][ApptIdsOf(Store) \subseteq ApptIdsOf(Store')]_vars

C26_Witness ==
  /\ last.op = "complete"
  /\ last.postVisitAction = "EXIT"
  /\ last.outcome = "ok"
  /\ \E k \in 1..Len(appointments) :
       /\ appointments[k].id = last.id
       /\ appointments[k].status = COMPLETED
       /\ WithId(subjects, appointments[k].subjectId) = {}

\* the places of the store that the step added
Created ==
  (Len(appointments) + 1)..Len(appointments')

\* C27: every appointment that an operation adds to the store (a booking,
\* the next visit of a completion, the rows of an import) is for a subject
\* that is in the directory when the operation has ended.
C27_NewAppointmentHasSubject ==
  [][(mounted /\ mounted') =>
       \A k \in Created :
         WithId(subjects', appointments'[k].subjectId) # {}]_vars

C27_Witness ==
  /\ last.op = "import"
  /\ last.outcome = "ok"
  /\ last.newSubs = 1
  /\ last.updatedSubs = 1
  /\ Len(appointments) = 2
  /\ appointments[1].subjectId = "N010"
  /\ subjects[Len(subjects)].id = "N010"
  /\ subjects[Len(subjects)].name = "Subject N010"

\* the operation that ended is a draft of a follow-up message
Drafting ==
  last'.op = "draft"

\* C28: whatever the drafting service does, the draft ends with a message:
\* the text of the response, or a fallback text when the construction of
\* the client or the call fails or the response has no text; nothing is
\* thrown to the caller, the row is not left loading, and the directory, the
\* store and the log are as before.
C28_DraftFailureContained ==
  [][Drafting =>
       /\ last'.settled = "fulfilled"
       /\ last'.generatedMsg # None
       /\ last'.loadingId = NoId
       /\ (last'.client = THROWS \/ last'.response \in {THROWS, UNDEF, EMPTY})
            <=> last'.generatedMsg[1].text
                  \in {"Could not generate message.",
                       "Error generating message. Please check your network or API key."}
       /\ DataUnchanged]_vars

\* what is stored under a key is the collection
StoredIs(item, collection) ==
  item # None /\ item[1] = collection

\* C29: while a user is logged in, after every operation (the save effect
\* of its render included) what is stored of the subjects, of the
\* appointments and of the change log is the collection of the session.
C29_StoredIsInMemory ==
  (mounted /\ currentUser # NULL) =>
    /\ StoredIs(localStorage.pt_subjects, subjects)
    /\ StoredIs(localStorage.pt_appointments, appointments)
    /\ StoredIs(localStorage.pt_changelogs, changeLogs)

C29_Witness ==
  /\ mounted
  /\ currentUser # NULL
  /\ last.op = "import"
  /\ last.outcome = "ok"
  /\ last.newSubs = 1
  /\ Len(appointments) = 2
  /\ Len(changeLogs) = 2
  /\ localStorage.pt_subjects[1][4].id = "N010"
  /\ Len(localStorage.pt_appointments[1]) = 2
  /\ Len(localStorage.pt_changelogs[1]) = 2

\* C30: a subject that has left by an exit does not come back: no id of a
\* DELETE entry of the log is the id of a subject of the directory, whatever
\* was done since (a create, an import, an update).
C30_ExitIsPermanent ==
  mounted =>
    \A k \in 1..Len(changeLogs) :
      changeLogs[k].changeType = "DELETE"
        => WithId(subjects, changeLogs[k].subjectId) = {}

\* C31: the follow-up appointment that a completion with the next-visit
\* choice creates is Scheduled, belongs to the subject of the completed
\* appointment and is dated strictly after now.
C31_FollowUpScheduledAfterNow ==
  [][(/\ Completing
      /\ last'.postVisitAction = "NEXT_APPT"
      /\ last'.outcome = "ok")
     => /\ Len(appointments') = Len(appointments) + 1
        /\ appointments'[Len(appointments')].status = SCHEDULED
        /\ appointments'[Len(appointments')].subjectId
             = completionApp[1].subjectId
        /\ isAfter(appointments'[Len(appointments')].date, now)]_vars

IdsOf(subs) ==
  {subs[k].id : k \in 1..Len(subs)}

\* the import that ended appended the summary of the subjects
SubjectSummaryAppended ==
  /\ last'.op = "import"
  /\ Len(changeLogs') > Len(changeLogs)
  /\ changeLogs'[Len(changeLogs) + 1].subjectName = "Bulk Ops"

\* C32: the subject summary that an import appends to the log counts the
\* distinct subjects the batch added to the directory and the distinct
\* subjects of the directory whose record the batch changed.
C32_SummaryCountsDistinctSubjects ==
  [][SubjectSummaryAppended =>
       LET summary == changeLogs'[Len(changeLogs) + 1]
           added == IdsOf(subjects') \ IdsOf(subjects)
           changed == {subjects[k].id :
                         k \in {j \in 1..Len(subjects) :
                                  subjects'[j] # subjects[j]}}
       IN /\ summary.details[2] = Cardinality(added)
          /\ summary.details[4] = Cardinality(changed)]_vars

\* C33: with no search text and no filter, the timeline lists every
\* appointment of the store, the appointments of a subject that has left the
\* directory included.
C33_ExitedSubjectsAppointmentListed ==
  Ready =>
    \A k \in 1..Len(appointments) :
      FindSubject(subjects, appointments[k].subjectId) = None
        => \E j \in 1..Len(filtered) : filtered[j] = appointments[k]

\* the operation that ended only reads: a listing of the change log, an
\* export, the draft of a message
ReadingOnly ==
  last'.op \in {"listChangeLog", "export", "exportExited", "draft"}

\* C34: a listing of the change log under any filter, the export of the
\* calendar, the export of the exited subjects and the draft of a message
\* leave the directory, the store and the change log, its order included, as
\* they were.
C34_ReadOnlyOperations ==
  [][ReadingOnly => DataUnchanged]_vars

C34_Witness ==
  /\ last.op = "listChangeLog"
  /\ last.filterType = "ALL"
  /\ Len(changeLogs) = 2
  /\ changeLogs[1].timestamp < changeLogs[2].timestamp
  /\ last.filteredLogs = <<changeLogs[2], changeLogs[1]>>

\* C35: an appointment that is Completed stays Completed, whatever is done
\* next: a reason saved, a completion, a correction, a reschedule, an import,
\* a reload with its auto-miss pass.
C35_CompletedIsAbsorbing ==
  [][\A i \in 1..Len(Store) :
       Store[i].status = COMPLETED
         => \E j \in 1..Len(Store') :
              /\ Store'[j].id = Store[i].id
              /\ Store'[j].status = COMPLETED]_vars

C35_Witness ==
  /\ mounted
  /\ last.op = "bootstrap"
  /\ ops > 0
  /\ \E k \in 1..Len(appointments) :
       /\ last.loaded[k].status = COMPLETED
       /\ last.loaded[k].date < now
       /\ appointments[k].status = COMPLETED

\* C36: an appointment that is Scheduled carries no followUpReason; a
\* reschedule of a Missed appointment clears the reason of the miss.
C36_ScheduledHasNoReason ==
  \A k \in 1..Len(Store) :
    Store[k].status = SCHEDULED => Store[k].followUpReason = UNDEF

\* C37: while the clock stands where it stood at the bootstrap, no booking,
\* reschedule, completion with a next visit or import leaves a Scheduled
\* appointment dated before now.
C37_NoScheduledInThePast ==
  (mounted /\ now = StartNow) =>
    \A k \in 1..Len(appointments) :
      appointments[k].status = SCHEDULED => ~isBefore(appointments[k].date, now)

\* the operation that ended is one of the three that change an appointment
\* in place: a reason saved for a miss, a completion, a reschedule
ChangingInPlace ==
  /\ last'.op \in {"markMissed", "complete", "reschedule"}
  /\ last'.outcome = "ok"

\* C38: a status update, a completion and a reschedule change the
\* appointment of the id they are given and no other: every other
\* appointment of the store is as before, and the target keeps its id and
\* its subjectId.
C38_OnlyTargetChanges ==
  [][ChangingInPlace =>
       /\ Len(appointments') >= Len(appointments)
       /\ \A k \in 1..Len(appointments) :
            /\ appointments'[k].id = appointments[k].id
            /\ appointments'[k].subjectId = appointments[k].subjectId
            /\ appointments[k].id # last'.id
                 => appointments'[k] = appointments[k]]_vars

C38_Witness ==
  /\ last.op = "markMissed"
  /\ last.outcome = "ok"
  /\ \E k, j \in 1..Len(appointments) :
       /\ appointments[k].id = last.id
       /\ appointments[k].status = MISSED
       /\ appointments[j].id # last.id
       /\ appointments[j].subjectId = appointments[k].subjectId
       /\ appointments[j].status = SCHEDULED

\* the collections of localStorage
StoredCollections(store) ==
  <<store.pt_subjects, store.pt_appointments, store.pt_changelogs>>

\* C39: the empty state of before the load is never saved over the stored
\* collections: the save of the first commit of a session writes nothing,
\* the first save of the session writes what was loaded, and no step that
\* ends with nobody logged in writes a collection.
C39_NoSaveBeforeLoadNorWithoutUser ==
  [][/\ currentUser' = NULL
          => StoredCollections(localStorage') = StoredCollections(localStorage)
     /\ (~mounted /\ mounted')
          => /\ last'.firstSave = localStorage
             /\ localStorage.pt_current_user # None
                  => StoredCollections(localStorage')
                       = <<localStorage.pt_subjects,
                           Some(AutoMissPass(localStorage.pt_appointments[1],
                                             now)),
                           localStorage.pt_changelogs>>]_vars

C39_Witness ==
  /\ last.op = "bootstrap"
  /\ currentUser # NULL
  /\ Len(subjects) > 0
  /\ Len(appointments) > 0
  /\ Len(changeLogs) > 0
  /\ StoredCollections(localStorage)
       = <<Some(subjects), Some(appointments), Some(changeLogs)>>

\* C40: while drafts are requested for several appointments, the loading
\* marker is set as long as a request is in flight, and once every request
\* has been answered the draft shown is the one of the appointment asked for
\* last.
C40_OverlappingDrafts ==
  (last.op = "drafts" /\ ~last.rejected) =>
    /\ last.inFlight # <<>> => last.loadingId # NoId
    /\ (last.inFlight = <<>> /\ last.requested # NoId) =>
         /\ last.generatedMsg # None
         /\ last.generatedMsg[1].id = last.requested

====
